---- MODULE Spec2Model ----
(***************************************************************************)
(* Model of survey_csv_to_markdown.py: the row classifier                  *)
(* (is_question_row, is_header_row, is_data_row), the section segmenter,   *)
(* the header reconciliation and the table renderer of                     *)
(* format_survey_csv_to_markdown / format_question_section.                *)
(*                                                                         *)
(* A cell is modelled by its str() form, a TLA+ string; the float NaN that *)
(* pandas stores for a missing cell is the string "nan" (str(float('nan')))*)
(* A row is a sequence of cells, the data frame a sequence of rows of one  *)
(* width.  Row indices are 0-based as in the source: Row(df, k) is         *)
(* df.iloc[k].                                                             *)
(***************************************************************************)
EXTENDS Integers, Sequences, FiniteSets, TLC

VARIABLES df, pc, question_boundaries, i, question_number, markdown_content,
          sections, verdict

vars == <<df, pc, question_boundaries, i, question_number, markdown_content,
          sections, verdict>>

-----------------------------------------------------------------------------
(* Strings: the str methods and the regular expressions the source uses.   *)

Ch(s, k) == SubSeq(s, k, k)

Digits == {"0", "1", "2", "3", "4", "5", "6", "7", "8", "9"}

UpperChars == "ABCDEFGHIJKLMNOPQRSTUVWXYZ"

LowerChars == "abcdefghijklmnopqrstuvwxyz"

Whitespace == {" ", "\t", "\n", "\r", "\f"}

IsUpper(c) == \E k \in 1..26 : Ch(UpperChars, k) = c

IsLower(c) == \E k \in 1..26 : Ch(LowerChars, k) = c

\* p in s
Contains(s, p) ==
    \E k \in 1..(Len(s) - Len(p) + 1) : SubSeq(s, k, k + Len(p) - 1) = p

StartsWith(s, p) == Len(s) >= Len(p) /\ SubSeq(s, 1, Len(p)) = p

\* str.strip()
RECURSIVE LStrip(_)
LStrip(s) ==
    IF Len(s) > 0 /\ Ch(s, 1) \in Whitespace THEN LStrip(SubSeq(s, 2, Len(s))) ELSE s

RECURSIVE RStrip(_)
RStrip(s) ==
    IF Len(s) > 0 /\ Ch(s, Len(s)) \in Whitespace
    THEN RStrip(SubSeq(s, 1, Len(s) - 1)) ELSE s

Strip(s) == RStrip(LStrip(s))

LowerChar(c) ==
    IF IsUpper(c) THEN Ch(LowerChars, CHOOSE k \in 1..26 : Ch(UpperChars, k) = c) ELSE c

UpperChar(c) ==
    IF IsLower(c) THEN Ch(UpperChars, CHOOSE k \in 1..26 : Ch(LowerChars, k) = c) ELSE c

\* str.lower(), half by half
RECURSIVE Lower(_)
Lower(s) ==
    IF Len(s) = 0 THEN ""
    ELSE IF Len(s) = 1 THEN LowerChar(s)
    ELSE Lower(SubSeq(s, 1, Len(s) \div 2)) \o Lower(SubSeq(s, Len(s) \div 2 + 1, Len(s)))

\* str.replace(old, new), left to right, non-overlapping; old is not empty
RECURSIVE Replace(_, _, _)
Replace(s, old, new) ==
    IF Len(s) < Len(old) THEN s
    ELSE IF SubSeq(s, 1, Len(old)) = old
         THEN new \o Replace(SubSeq(s, Len(old) + 1, Len(s)), old, new)
         ELSE Ch(s, 1) \o Replace(SubSeq(s, 2, Len(s)), old, new)

\* str.title(): a letter that follows a non-letter is upper-cased, any other lower-cased
RECURSIVE TitleFrom(_, _)
TitleFrom(s, afterLetter) ==
    IF Len(s) = 0 THEN ""
    ELSE LET c == Ch(s, 1)
             letter == IsUpper(c) \/ IsLower(c)
         IN (IF afterLetter THEN LowerChar(c) ELSE UpperChar(c))
               \o TitleFrom(SubSeq(s, 2, Len(s)), letter)

Title(s) == TitleFrom(s, FALSE)

\* sep.join(parts)
RECURSIVE Join(_, _)
Join(sep, parts) ==
    IF Len(parts) = 0 THEN ""
    ELSE IF Len(parts) = 1 THEN parts[1]
    ELSE parts[1] \o sep \o Join(sep, Tail(parts))

\* re.search(r'^[A-Z]\d+:', s)
MatchItemCode(s) ==
    /\ Len(s) >= 3
    /\ IsUpper(Ch(s, 1))
    /\ \E j \in 2..(Len(s) - 1) :
          /\ \A k \in 2..j : Ch(s, k) \in Digits
          /\ Ch(s, j + 1) = ":"

\* re.search(r'^\[.*\]', s): '.' matches no newline
MatchBracketed(s) ==
    /\ Len(s) >= 2
    /\ Ch(s, 1) = "["
    /\ \E j \in 2..Len(s) :
          /\ Ch(s, j) = "]"
          /\ \A k \in 2..(j - 1) : Ch(s, k) # "\n"

\* re.search(r'\?$', s): '$' matches at the end and before a final newline
MatchEndsQuestionMark(s) ==
    \/ (Len(s) >= 1 /\ Ch(s, Len(s)) = "?")
    \/ (Len(s) >= 2 /\ SubSeq(s, Len(s) - 1, Len(s)) = "?\n")

\* re.search(r'^CTP:', s)
MatchCTP(s) == StartsWith(s, "CTP:")

\* re.search(r'^h[A-Z]', s)
MatchHVar(s) == Len(s) >= 2 /\ Ch(s, 1) = "h" /\ IsUpper(Ch(s, 2))

\* re.search(r'N=\d+', s)
MatchSampleSize(s) ==
    \E k \in 1..(Len(s) - 2) : SubSeq(s, k, k + 1) = "N=" /\ Ch(s, k + 2) \in Digits

\* re.search(r'\d', s)
MatchDigit(s) == \E k \in 1..Len(s) : Ch(s, k) \in Digits

-----------------------------------------------------------------------------
(* Row classifier                                                          *)

RECURSIVE first_non_empty_cell(_)
first_non_empty_cell(row) ==
    IF Len(row) = 0 THEN ""
    ELSE LET cell_str == Strip(row[1])
         IN IF cell_str # "" /\ Lower(cell_str) # "nan"
            THEN cell_str
            ELSE first_non_empty_cell(Tail(row))

question_words == {"what", "how", "which", "please", "following"}

response_indicators ==
    {"marketing or advertising agency", "business entity", "educational institution",
     "organization", "government agency"}

LongTextLen == 50

is_question_row(row) ==
    LET first_cell == first_non_empty_cell(row)
    IN \/ MatchItemCode(first_cell)
       \/ MatchBracketed(first_cell)
       \/ MatchEndsQuestionMark(first_cell)
       \/ MatchCTP(first_cell)
       \/ MatchHVar(first_cell)
       \/ /\ Len(first_cell) > LongTextLen
          /\ \E word \in question_words : Contains(Lower(first_cell), word)
          /\ ~ \E indicator \in response_indicators :
                  Contains(Lower(first_cell), indicator)

specific_headers ==
    {"Pro-to-Pro Switchers (B)", "Software-to-Pro Switchers (C)",
     "Pro-to-Software Switchers (D)"}

NotBlank(cell) == Strip(cell) # "" /\ Strip(cell) # "nan"

\* [cell for cell in row if str(cell).strip() and str(cell).strip() != 'nan']
RECURSIVE NonBlankCells(_)
NonBlankCells(row) ==
    IF Len(row) = 0 THEN <<>>
    ELSE (IF NotBlank(row[1]) THEN <<row[1]>> ELSE <<>>) \o NonBlankCells(Tail(row))

is_header_row(row) ==
    LET first_cell == first_non_empty_cell(row)
        all_text == Join(" ", row)
        row_text == Join(" ", NonBlankCells(row))
    IN \/ (first_cell = "Total" /\ Contains(all_text, "N="))
       \/ Contains(row_text, "Total (A)")
       \/ \E h \in specific_headers : Contains(row_text, h)

response_categories ==
    {"Total", "Mean", "Median", "Standard Deviation", "Yes", "No", "Male", "Female",
     "Other", "Very important", "Somewhat important", "Not important",
     "Strongly agree", "Agree", "Disagree", "Currently use", "Used", "Never used",
     "A marketing or advertising agency", "A business entity",
     "An educational institution", "An organization or non-profit",
     "A government agency"}

MaxOptionLen == 120

StripAll(row) == [k \in 1..Len(row) |-> Strip(row[k])]

\* a slip: the test for a question row is left out
is_data_row_unguarded(row) ==
    LET first_cell == first_non_empty_cell(row)
        non_empty_cells == StripAll(NonBlankCells(row))
        numeric_cells ==
            Cardinality({k \in 1..Len(non_empty_cells) : MatchDigit(non_empty_cells[k])})
    IN IF first_cell = "" \/ first_cell = "nan" THEN FALSE
       ELSE IF numeric_cells >= 2 THEN TRUE
       ELSE IF \E category \in response_categories : Contains(first_cell, category)
            THEN TRUE
       ELSE Len(first_cell) > 0 /\ Len(first_cell) < MaxOptionLen

is_data_row(row) ==
    LET first_cell == first_non_empty_cell(row)
        non_empty_cells == StripAll(NonBlankCells(row))
        numeric_cells ==
            Cardinality({k \in 1..Len(non_empty_cells) : MatchDigit(non_empty_cells[k])})
    IN IF first_cell = "" \/ first_cell = "nan" THEN FALSE
       ELSE IF is_question_row(row) THEN FALSE
       ELSE IF numeric_cells >= 2 THEN TRUE
       ELSE IF \E category \in response_categories : Contains(first_cell, category)
            THEN TRUE
       ELSE Len(first_cell) > 0 /\ Len(first_cell) < MaxOptionLen

-----------------------------------------------------------------------------
(* The rows of the data frames the conversion is run on                    *)

Q1 == << "Q1: Do you like tea?", "nan" >>

TotalN == << "Total", "N=100" >>

YesRow == << "Yes", "60%" >>

NoRow == << "No", "40%" >>

\* a question whose text sits in the second column, as in the source files
QB == << "nan", " Why tea? " >>

Descriptive == << "Total (A)", "Pro-to-Pro Switchers (B)" >>

\* a descriptive header whose label holds a pipe
DescriptivePipe == << "Total (A)", "Buy|Rent (B)" >>

\* sample sizes in a row that is_header_row does not flag
NRow == << "nan", "N=50" >>

\* a "Total" row whose N= carries no digits
TotalNoDigits == << "Total", "N=n/a" >>

\* a response whose cells hold a pipe and a line break
PipeData == << "Tea|Coffee", "1 cup\n2 cups" >>

BlankRow == << "nan", "nan" >>

RowPool ==
    {Q1, QB, TotalN, TotalNoDigits, Descriptive, DescriptivePipe, NRow, YesRow, PipeData}

\* the rows the frames are built from
KnownRows == RowPool \cup {NoRow, BlankRow}

\* The classifier is a pure function of the row: its value on each known row
IsQuestion == [row \in KnownRows |-> is_question_row(row)]

IsHeader == [row \in KnownRows |-> is_header_row(row)]

IsData == [row \in KnownRows |-> is_data_row(row)]


-----------------------------------------------------------------------------
(* format_survey_csv_to_markdown: helpers of the per-section loop body     *)

Row(frame, k) == frame[k + 1]

\* the loop that copies a row, a blank or NaN cell becoming ""
CleanRow(row) ==
    [k \in 1..Len(row) |-> IF NotBlank(row[k]) THEN Strip(row[k]) ELSE ""]

\* any(data_row)
AnyCell(row) == \E k \in 1..Len(row) : row[k] # ""

\* all_header_rows collected over range(lo, hi)
RECURSIVE collect_header_rows(_, _, _)
collect_header_rows(frame, lo, hi) ==
    IF lo >= hi THEN <<>>
    ELSE (IF IsHeader[Row(frame, lo)] THEN <<CleanRow(Row(frame, lo))>> ELSE <<>>)
            \o collect_header_rows(frame, lo + 1, hi)

\* section_data collected over range(lo, hi): the elif branch of the loop
RECURSIVE collect_section_data(_, _, _)
collect_section_data(frame, lo, hi) ==
    IF lo >= hi THEN <<>>
    ELSE (IF /\ ~ IsHeader[Row(frame, lo)]
             /\ IsData[Row(frame, lo)]
             /\ AnyCell(CleanRow(Row(frame, lo)))
          THEN <<CleanRow(Row(frame, lo))>> ELSE <<>>)
            \o collect_section_data(frame, lo + 1, hi)

is_descriptive_text(header_text) ==
    \/ Contains(header_text, "Total (A)")
    \/ \E lbl \in specific_headers : Contains(header_text, lbl)

is_total_text(header_text) ==
    Contains(header_text, "N=") \/ MatchSampleSize(header_text)

\* An optional row is a sequence of no row (None) or one row.
\* descriptive_headers after the loop over all_header_rows, cur its value before
RECURSIVE pick_descriptive(_, _)
pick_descriptive(rows, cur) ==
    IF Len(rows) = 0 THEN cur
    ELSE pick_descriptive(Tail(rows),
            IF is_descriptive_text(Join(" ", rows[1])) THEN <<rows[1]>> ELSE cur)

\* total_headers after the loop over all_header_rows, cur its value before
RECURSIVE pick_total(_, _)
pick_total(rows, cur) ==
    IF Len(rows) = 0 THEN cur
    ELSE pick_total(Tail(rows),
            IF is_total_text(Join(" ", rows[1])) THEN <<rows[1]>> ELSE cur)

has_sample_size_cell(row) ==
    LET cells == StripAll(NonBlankCells(row))
    IN \E k \in 1..Len(cells) : MatchSampleSize(cells[k])

\* the two fallback loops: the first row of range(lo, hi) with an N=<digits> cell
RECURSIVE scan_for_sample_size(_, _, _)
scan_for_sample_size(frame, lo, hi) ==
    IF lo >= hi THEN <<>>
    ELSE IF has_sample_size_cell(Row(frame, lo)) THEN <<CleanRow(Row(frame, lo))>>
    ELSE scan_for_sample_size(frame, lo + 1, hi)

LookAbove == 6

Max(a, b) == IF a >= b THEN a ELSE b

\* a slip: the scan above the question starts at the top of the frame
start_at_top(question_start) == 0

start_above(question_start) == Max(0, question_start - LookAbove)

\* a slip: the rows above the question are scanned before the rows of the section
reconcile_total_above_first(frame, question_start, question_end, rows) ==
    LET found == pick_total(rows, <<>>)
        above == IF found = <<>>
                 THEN scan_for_sample_size(frame, start_above(question_start),
                                           question_start)
                 ELSE found
    IN IF above = <<>>
       THEN scan_for_sample_size(frame, question_start + 1, question_end)
       ELSE above

\* total_headers of a section that collected rows
reconcile_total(frame, question_start, question_end, rows) ==
    LET found == pick_total(rows, <<>>)
        inside == IF found = <<>>
                  THEN scan_for_sample_size(frame, question_start + 1, question_end)
                  ELSE found
    IN IF inside = <<>>
       THEN scan_for_sample_size(frame, start_above(question_start), question_start)
       ELSE inside

\* descriptive_headers of the section (no row when none was collected)
descriptive_headers_of(frame, question_start, question_end) ==
    LET rows == collect_header_rows(frame, question_start + 1, question_end)
    IN IF rows # <<>> THEN pick_descriptive(rows, <<>>) ELSE <<>>

\* total_headers of the section (no row when none was collected)
total_headers_of(frame, question_start, question_end) ==
    LET rows == collect_header_rows(frame, question_start + 1, question_end)
    IN IF rows # <<>>
       THEN reconcile_total(frame, question_start, question_end, rows)
       ELSE <<>>

\* a slip: the sample-size header is put before the descriptive header
reconcile_headers_total_first(frame, question_start, question_end) ==
    total_headers_of(frame, question_start, question_end)
        \o descriptive_headers_of(frame, question_start, question_end)

\* header_rows of the section [question_start, question_end): descriptive first
reconcile_headers(frame, question_start, question_end) ==
    descriptive_headers_of(frame, question_start, question_end)
        \o total_headers_of(frame, question_start, question_end)

\* question_text of the section that starts at question_start
question_text_of(frame, question_start) == Strip(Row(frame, question_start)[1])

-----------------------------------------------------------------------------
(* format_question_section: the text is kept as the sequence of the pieces *)
(* the code appends to content, one piece per "content +=".                *)

RECURSIVE max_cols(_)
max_cols(data_rows) ==
    IF Len(data_rows) = 0 THEN 0 ELSE Max(Len(data_rows[1]), max_cols(Tail(data_rows)))

\* a slip: the generic headers are used whatever header rows there are
table_headers_synthetic(header_rows, data_rows) ==
    [k \in 1..max_cols(data_rows) |-> "Column " \o ToString(k)]

table_headers(header_rows, data_rows) ==
    IF header_rows # <<>> THEN header_rows[1]
    ELSE [k \in 1..max_cols(data_rows) |-> "Column " \o ToString(k)]

\* while len(row) < n: row.append(""), then row[:n]
Fit(row, n) == [k \in 1..n |-> IF k <= Len(row) THEN row[k] ELSE ""]

clean_cell(cell) == Replace(Replace(cell, "|", "\\|"), "\n", " ")

table_line(cells) == "| " \o Join(" | ", cells) \o " |\n"

RECURSIVE Repeat(_, _)
Repeat(s, n) == IF n = 0 THEN "" ELSE s \o Repeat(s, n - 1)

header_line(headers) == table_line(headers)

secondary_line(secondary, n) == table_line(Fit(secondary, n))

data_line(data_row, n) ==
    LET fitted == Fit(data_row, n)
    IN table_line([k \in 1..n |-> clean_cell(fitted[k])])

format_question_section(question_num, question, header_rows, data_rows) ==
    LET headers == table_headers(header_rows, data_rows)
        n == Len(headers)
        top == << "### Question " \o ToString(question_num) \o "\n\n",
                  "**" \o question \o "**\n\n" >>
    IN IF header_rows = <<>> /\ data_rows = <<>>
       THEN top \o << "*No response data available for this question.*\n\n" >>
       ELSE IF data_rows = <<>> THEN top
       ELSE top
            \o << "#### Response Data\n\n",
                  header_line(headers),
                  "|" \o Repeat("---|", n) \o "\n" >>
            \o (IF Len(header_rows) > 1
                THEN << secondary_line(header_rows[2], n) >> ELSE <<>>)
            \o [k \in 1..Len(data_rows) |-> data_line(data_rows[k], n)]
            \o << "\n" >>

-----------------------------------------------------------------------------
(* format_survey_csv_to_markdown as a state machine                        *)

filename == "tea_survey.csv"

file_title == Title(Replace(Replace(filename, "_", " "), ".csv", ""))

\* the indices of the question rows among range(lo, len(df)), in order
RECURSIVE find_boundaries(_, _)
find_boundaries(frame, lo) ==
    IF lo >= Len(frame) THEN <<>>
    ELSE (IF IsQuestion[Row(frame, lo)] THEN <<lo>> ELSE <<>>)
            \o find_boundaries(frame, lo + 1)

\* a slip: every section runs to the end of the frame
question_end_always_last(frame, boundaries, n) == Len(frame)

\* question_end of the i-th boundary (i from 0)
question_end_of(frame, boundaries, n) ==
    IF n + 1 < Len(boundaries) THEN boundaries[n + 2] ELSE Len(frame)

\* a slip: a section is emitted whether or not it has anything to show
has_content_always(header_rows, section_data) == TRUE

\* should the section be emitted
has_content(header_rows, section_data) == header_rows # <<>> \/ section_data # <<>>

\* a slip: the summary is written for an empty frame too
empty_document_with_summary ==
    << "# " \o filename \o "\n\n*This file is empty.*\n",
       "## Summary\n\n",
       "**Total Questions Processed:** 0  \n" >>

\* the document returned for an empty frame
empty_document == << "# " \o filename \o "\n\n*This file is empty.*\n" >>

\* if df.empty: return the placeholder document
ReturnEmpty ==
    /\ pc = "start"
    /\ Len(df) = 0
    /\ markdown_content' = empty_document
    /\ pc' = "done"
    /\ UNCHANGED <<df, question_boundaries, i, question_number, sections, verdict>>

\* title and record counts, then the scan for question boundaries
FindBoundaries ==
    /\ pc = "start"
    /\ Len(df) > 0
    /\ markdown_content' =
          << "# " \o file_title \o "\n\n",
             "**Total Records:** " \o ToString(Len(df)) \o "  \n",
             "**Total Columns:** " \o ToString(Len(df[1])) \o "  \n",
             "**Generated:** October 28, 2025  \n\n",
             "## Survey Questions and Responses\n\n" >>
    /\ question_boundaries' = find_boundaries(df, 0)
    /\ question_number' = 0
    /\ i' = 0
    /\ pc' = "sections"
    /\ UNCHANGED <<df, sections, verdict>>

\* one iteration of the loop over question_boundaries
ProcessSection ==
    /\ pc = "sections"
    /\ i < Len(question_boundaries)
    /\ LET question_start == question_boundaries[i + 1]
           question_end == question_end_of(df, question_boundaries, i)
           question_text == question_text_of(df, question_start)
           all_header_rows == collect_header_rows(df, question_start + 1, question_end)
           section_data == collect_section_data(df, question_start + 1, question_end)
           header_rows == reconcile_headers(df, question_start, question_end)
           emit == has_content(header_rows, section_data)
           number == IF emit THEN question_number + 1 ELSE question_number
           content == IF emit
                      THEN format_question_section(number, question_text,
                                                   header_rows, section_data)
                      ELSE <<>>
       IN /\ question_number' = number
          /\ markdown_content' = markdown_content \o content
          /\ sections' = Append(sections,
                [start |-> question_start, end |-> question_end,
                 question_text |-> question_text,
                 all_header_rows |-> all_header_rows,
                 descriptive_headers |->
                     descriptive_headers_of(df, question_start, question_end),
                 total_headers |-> total_headers_of(df, question_start, question_end),
                 header_rows |-> header_rows, section_data |-> section_data,
                 emitted |-> emit, number |-> number, content |-> content])
    /\ i' = i + 1
    /\ UNCHANGED <<df, pc, question_boundaries, verdict>>

\* the summary after the loop
Summary ==
    /\ pc = "sections"
    /\ i = Len(question_boundaries)
    /\ markdown_content' = markdown_content \o
          << "## Summary\n\n",
             "**Total Questions Processed:** " \o ToString(question_number) \o "  \n",
             "**Source File:** " \o filename \o "  \n" >>
    /\ pc' = "done"
    /\ UNCHANGED <<df, question_boundaries, i, question_number, sections, verdict>>

-----------------------------------------------------------------------------
(* The data frames the conversion is run on                                *)

MaxRows == 4

MaxPad == 6

MaxCore == 3

RECURSIVE SeqsUpTo(_, _)
SeqsUpTo(S, n) ==
    IF n = 0 THEN {<<>>}
    ELSE LET shorter == SeqsUpTo(S, n - 1)
         IN shorter \cup {Append(g, r) : g \in {h \in shorter : Len(h) = n - 1}, r \in S}

\* every frame of at most MaxRows rows of the pool
SmallFrames == SeqsUpTo(RowPool, MaxRows)

\* a sample-size row, k blank rows, then a short survey: the rows above a question
PaddedFrames ==
    {<<top>> \o [k \in 1..pad |-> BlankRow] \o core :
        top \in {NRow, TotalN},
        pad \in 0..MaxPad,
        core \in SeqsUpTo({QB, Descriptive, YesRow}, MaxCore) \ {<<>>}}

\* the four-row survey: a question, its "Total" row and two responses
TeaFrame == << Q1, TotalN, YesRow, NoRow >>

Init ==
    /\ df \in SmallFrames \cup PaddedFrames \cup {TeaFrame}
    /\ pc = "start"
    /\ question_boundaries = <<>>
    /\ i = 0
    /\ question_number = 0
    /\ markdown_content = <<>>
    /\ sections = <<>>
    /\ verdict = [classified |-> FALSE, question |-> FALSE, header |-> FALSE,
                  data |-> FALSE]

Next == ReturnEmpty \/ FindBoundaries \/ ProcessSection \/ Summary

Spec == Init /\ [][Next]_vars

-----------------------------------------------------------------------------
(* The row classifier on its own: one row, classified by the three         *)
(* predicates.                                                             *)

LongQuestion == "Please tell us which of the following you use at home now"

LongResponse == "Please describe the organization you work for in a few words"

LongOption == "An option label that goes on for a very long time, "

ClassifierCells ==
    {"nan", "", " Why tea? ", "Q1: Do you like tea?", "S1: Age 18?", "[Age]",
     "CTP: 2024", "hSample", "Total", "N=100", "Yes", "60%", "25", "Total (A)",
     "Pro-to-Pro Switchers (B)", "NaN", "Tea|Coffee", "q1: tea",
     LongQuestion, LongResponse, LongOption \o LongOption \o LongOption}

MaxWidth == 2

RowsOfWidth(n) == {r \in SeqsUpTo(ClassifierCells, n) : Len(r) = n}

InitClassify ==
    /\ df \in {<<row>> : row \in RowsOfWidth(MaxWidth)}
    /\ pc = "row"
    /\ question_boundaries = <<>>
    /\ i = 0
    /\ question_number = 0
    /\ markdown_content = <<>>
    /\ sections = <<>>
    /\ verdict = [classified |-> FALSE, question |-> FALSE, header |-> FALSE,
                  data |-> FALSE]

ClassifyRow ==
    /\ pc = "row"
    /\ verdict' = [classified |-> TRUE,
                   question |-> is_question_row(df[1]),
                   header |-> is_header_row(df[1]),
                   data |-> is_data_row(df[1])]
    /\ pc' = "classified"
    /\ UNCHANGED <<df, question_boundaries, i, question_number, markdown_content,
                   sections>>

NextClassify == ClassifyRow

SpecClassify == InitClassify /\ [][NextClassify]_vars

-----------------------------------------------------------------------------
(* Properties                                                              *)

Done == pc = "done"

SetMin(S) == CHOOSE m \in S : \A x \in S : m <= x

SetMax(S) == CHOOSE m \in S : \A x \in S : m >= x

\* the indices of the rows of df that the classifier calls a question
QuestionRowIndices == {k \in 0..(Len(df) - 1) : IsQuestion[Row(df, k)]}

RECURSIVE SumOfLengths(_)
SumOfLengths(secs) ==
    IF Len(secs) = 0 THEN 0
    ELSE (secs[1].end - secs[1].start) + SumOfLengths(Tail(secs))

\* C1: when the conversion is done there is one section per question row; section
\* n starts at the n-th question row and ends where the next one starts, the last
\* at the end of the frame; the lengths add up to the frame length less the rows
\* before the first question row.
C1_SectionsPartition ==
    Done =>
       LET n == Len(sections)
           before == IF QuestionRowIndices = {} THEN Len(df)
                     ELSE SetMin(QuestionRowIndices)
       IN /\ n = Cardinality(QuestionRowIndices)
          /\ \A j \in 1..n :
                /\ sections[j].start \in QuestionRowIndices
                /\ sections[j].start < sections[j].end
          /\ \A j \in 1..(n - 1) : sections[j].end = sections[j + 1].start
          /\ n > 0 => sections[n].end = Len(df)
          /\ SumOfLengths(sections) = Len(df) - before

\* two sections, the first one after a row that belongs to no section
C1_Witness ==
    /\ Done
    /\ Len(sections) >= 2
    /\ sections[1].start > 0
    /\ sections[2].end = Len(df)

\* C2: a row that is_question_row accepts is never accepted by is_data_row.
C2_QuestionNeverData ==
    verdict.classified => ~ (verdict.question /\ verdict.data)

\* a question row with two numeric cells, which the later tests of is_data_row accept
C2_Witness ==
    /\ verdict.classified
    /\ verdict.question
    /\ Cardinality({k \in 1..Len(df[1]) : MatchDigit(df[1][k])}) >= 2
    /\ is_data_row_unguarded(df[1])

\* the number of '|' of the line that no backslash precedes
UnescapedPipes(line) ==
    Cardinality({k \in 1..Len(line) :
                    Ch(line, k) = "|" /\ (k = 1 \/ Ch(line, k - 1) # "\\")})

\* the piece is one line of text: it ends in its only line break
OneLine(piece) ==
    /\ Len(piece) > 0
    /\ \A k \in 1..Len(piece) : (Ch(piece, k) = "\n") <=> (k = Len(piece))

\* a table row of n fields: "| f1 | ... | fn |"
HasFields(piece, n) == OneLine(piece) /\ UnescapedPipes(piece) = n + 1

\* where the table rows sit in the pieces of a section with data: the header row
\* is the 4th piece, the 5th the separator, the last the closing blank line
TableRowPositions(content) == {4} \cup (6..(Len(content) - 1))

ColumnCount(s) ==
    IF s.header_rows # <<>> THEN Len(s.header_rows[1]) ELSE max_cols(s.section_data)

\* C3: every row of every rendered table (header, sample sizes, data) has as
\* many fields as the table has columns.
C3_EveryTableRowHasColumnCountFields ==
    Done =>
       \A j \in 1..Len(sections) :
          (sections[j].emitted /\ sections[j].section_data # <<>>) =>
             \A k \in TableRowPositions(sections[j].content) :
                HasFields(sections[j].content[k], ColumnCount(sections[j]))

\* the row was copied from a row at index lo..hi of df
CopiedFrom(row, lo, hi) ==
    \E k \in lo..hi : k >= 0 /\ k < Len(df) /\ CleanRow(Row(df, k)) = row

RowsOf(s) ==
    {s.header_rows[k] : k \in 1..Len(s.header_rows)}
        \cup {s.section_data[k] : k \in 1..Len(s.section_data)}

\* C4 as stated: whatever a section renders was copied from a row at or after the
\* first question row.
C4_NothingFromAboveFirstQuestion ==
    Done =>
       \A j \in 1..Len(sections) :
          sections[j].emitted =>
             \A row \in RowsOf(sections[j]) :
                CopiedFrom(row, sections[1].start, Len(df) - 1)

\* the up to LookAbove rows right above the section
WindowAbove(s) == {k \in 0..(s.start - 1) : s.start - k <= LookAbove}

SampleSizeRowsIn(S) == {k \in S : has_sample_size_cell(Row(df, k))}

\* the row is the first row with an N=<digits> cell among the rows above
FirstAbove(s, row) ==
    /\ SampleSizeRowsIn(WindowAbove(s)) # {}
    /\ row = CleanRow(Row(df, SetMin(SampleSizeRowsIn(WindowAbove(s)))))

\* C4 as amended: data rows and the descriptive header are copied from rows of
\* the section itself; the sample-size header alone may come from above the
\* section start, and then it is the first N=<digits> row of the up to 6 rows
\* above it, taken only when a header row was collected and no row of the
\* section holds N=<digits>.
C4_OnlySampleSizeFromAbove ==
    Done =>
       \A j \in 1..Len(sections) :
          LET s == sections[j]
              Inside(row) == CopiedFrom(row, s.start + 1, s.end - 1)
          IN /\ s.header_rows = s.descriptive_headers \o s.total_headers
             /\ \A k \in 1..Len(s.section_data) : Inside(s.section_data[k])
             /\ \A k \in 1..Len(s.descriptive_headers) : Inside(s.descriptive_headers[k])
             /\ \A k \in 1..Len(s.total_headers) :
                   \/ Inside(s.total_headers[k])
                   \/ /\ s.all_header_rows # <<>>
                      /\ SampleSizeRowsIn((s.start + 1)..(s.end - 1)) = {}
                      /\ FirstAbove(s, s.total_headers[k])

\* the first section renders, under its descriptive header, a sample-size row
\* that was copied from a row before the first question row
C4_Witness ==
    /\ Done
    /\ Len(sections) >= 1
    /\ sections[1].start > 0
    /\ sections[1].emitted
    /\ sections[1].descriptive_headers # <<>>
    /\ sections[1].section_data # <<>>
    /\ sections[1].total_headers # <<>>
    /\ ~ CopiedFrom(sections[1].total_headers[1], sections[1].start, Len(df) - 1)

DescriptiveIdx(rows) ==
    {k \in 1..Len(rows) : is_descriptive_text(Join(" ", rows[k]))}

SampleSizeIdx(rows) == {k \in 1..Len(rows) : MatchSampleSize(Join(" ", rows[k]))}

NEqualsIdx(rows) == {k \in 1..Len(rows) : Contains(Join(" ", rows[k]), "N=")}

\* the last of the rows whose index is in S, if any
LastOf(rows, S) == IF S = {} THEN <<>> ELSE << rows[SetMax(S)] >>

\* C5 as stated: the header set is the last collected descriptive row followed by
\* the last collected row that matches N=<digits>.
C5_LastDescriptiveThenLastSampleSize ==
    Done =>
       \A j \in 1..Len(sections) :
          LET s == sections[j]
              rows == s.all_header_rows
              descriptive == LastOf(rows, DescriptiveIdx(rows))
          IN /\ Len(s.header_rows) <= 2
             /\ SampleSizeIdx(rows) # {} =>
                   s.header_rows = descriptive \o LastOf(rows, SampleSizeIdx(rows))
             /\ SampleSizeIdx(rows) = {} =>
                   SubSeq(s.header_rows, 1, Len(descriptive)) = descriptive

\* C5 as amended: the sample-size header is the last collected row that contains
\* "N=", digits or not; when no collected row contains it, the header set is the
\* descriptive header followed by at most one row that holds an N=<digits> cell.
C5_LastDescriptiveThenLastNEquals ==
    Done =>
       \A j \in 1..Len(sections) :
          LET s == sections[j]
              rows == s.all_header_rows
              descriptive == LastOf(rows, DescriptiveIdx(rows))
              rest == SubSeq(s.header_rows, Len(descriptive) + 1, Len(s.header_rows))
          IN /\ Len(s.header_rows) <= 2
             /\ rows = <<>> => s.header_rows = <<>>
             /\ NEqualsIdx(rows) # {} =>
                   s.header_rows = descriptive \o LastOf(rows, NEqualsIdx(rows))
             /\ NEqualsIdx(rows) = {} =>
                   /\ s.header_rows = descriptive \o rest
                   /\ Len(rest) <= 1
                   /\ \A k \in 1..Len(rest) :
                         \E c \in 1..Len(rest[k]) : MatchSampleSize(rest[k][c])

\* the sample-size row comes first in the frame, the descriptive row second, and
\* the header set has them the other way round
C5_Witness ==
    /\ Done
    /\ \E j \in 1..Len(sections) :
          LET s == sections[j]
          IN /\ Len(s.all_header_rows) = 2
             /\ 1 \in NEqualsIdx(s.all_header_rows)
             /\ 1 \notin DescriptiveIdx(s.all_header_rows)
             /\ 2 \in DescriptiveIdx(s.all_header_rows)
             /\ 2 \notin NEqualsIdx(s.all_header_rows)
             /\ s.header_rows = << s.all_header_rows[2], s.all_header_rows[1] >>

\* what the fallback is said to supply: the first N=<digits> row of the section,
\* else the first of the up to LookAbove rows above it, else none
ExpectedFallback(s) ==
    LET inside == SampleSizeRowsIn((s.start + 1)..(s.end - 1))
        above == SampleSizeRowsIn(WindowAbove(s))
    IN IF inside # {} THEN << CleanRow(Row(df, SetMin(inside))) >>
       ELSE IF above # {} THEN << CleanRow(Row(df, SetMin(above))) >>
       ELSE <<>>

\* C6 as stated: in every section whose collected header rows supply no sample-size
\* header, collected rows or not, the sample-size header is what the fallback finds.
C6_FallbackInEverySection ==
    Done =>
       \A j \in 1..Len(sections) :
          NEqualsIdx(sections[j].all_header_rows) = {} =>
             sections[j].total_headers = ExpectedFallback(sections[j])

\* C6 as amended: the fallback runs only in a section that collected a header row;
\* a section that collected none has no header at all.
C6_FallbackOnlyWithCollectedHeader ==
    Done =>
       \A j \in 1..Len(sections) :
          LET s == sections[j]
          IN /\ (s.all_header_rows # <<>> /\ NEqualsIdx(s.all_header_rows) = {}) =>
                   s.total_headers = ExpectedFallback(s)
             /\ s.all_header_rows = <<>> =>
                   (s.total_headers = <<>> /\ s.header_rows = <<>>)

\* a section with a collected header row and no N= in it, no N=<digits> row among
\* its own rows, and a sample-size header found above it, below another candidate
C6_Witness ==
    /\ Done
    /\ \E j \in 1..Len(sections) :
          LET s == sections[j]
          IN /\ s.all_header_rows # <<>>
             /\ NEqualsIdx(s.all_header_rows) = {}
             /\ SampleSizeRowsIn((s.start + 1)..(s.end - 1)) = {}
             /\ Cardinality(SampleSizeRowsIn(WindowAbove(s))) >= 2
             /\ s.total_headers # <<>>

\* C7: the text in bold under a heading is the first non-empty cell of the
\* section's question row.
C7_QuestionTextIsFirstNonEmptyCell ==
    Done =>
       \A j \in 1..Len(sections) :
          sections[j].emitted =>
             sections[j].content[2] =
                "**" \o first_non_empty_cell(Row(df, sections[j].start)) \o "**\n\n"

\* C8: the four-row tea survey gives one section, its "Total" row as the only
\* header, and the two responses as the table body.
C8_TeaSurvey ==
    (Done /\ df = TeaFrame) =>
       /\ Len(sections) = 1
       /\ sections[1].descriptive_headers = <<>>
       /\ sections[1].total_headers = << << "Total", "N=100" >> >>
       /\ sections[1].header_rows = << << "Total", "N=100" >> >>
       /\ sections[1].emitted
       /\ sections[1].content =
             << "### Question 1\n\n",
                "**Q1: Do you like tea?**\n\n",
                "#### Response Data\n\n",
                "| Total | N=100 |\n",
                "|---|---|\n",
                "| Yes | 60% |\n",
                "| No | 40% |\n",
                "\n" >>

C8_Witness == Done /\ df = TeaFrame /\ Len(sections) = 1 /\ question_number = 1

InDocument(text) ==
    \E k \in 1..Len(markdown_content) : Contains(markdown_content[k], text)

\* C9 as stated: the document of an empty frame holds the placeholder, reports
\* zero questions processed and has no question section.
C9_EmptyReportsZeroQuestions ==
    (Done /\ Len(df) = 0) =>
       /\ InDocument("*This file is empty.*")
       /\ InDocument("**Total Questions Processed:** 0")
       /\ ~ InDocument("### Question")

\* C9 as amended: the document of an empty frame is the title and the
\* placeholder; it has no question section and no summary, so no count.
C9_EmptyIsPlaceholderOnly ==
    (Done /\ Len(df) = 0) =>
       /\ Len(markdown_content) = 1
       /\ StartsWith(markdown_content[1], "# " \o filename)
       /\ InDocument("*This file is empty.*")
       /\ ~ InDocument("### Question")
       /\ ~ InDocument("Total Questions Processed")
       /\ ~ InDocument("## Summary")
       /\ sections = <<>>

C9_Witness == Done /\ Len(df) = 0 /\ markdown_content # <<>>

HeadingPositions ==
    {k \in 1..Len(markdown_content) : StartsWith(markdown_content[k], "### Question ")}

\* the sections that have a header or a data row, in order
SectionsWithContent ==
    SelectSeq(sections, LAMBDA s : s.header_rows # <<>> \/ s.section_data # <<>>)

\* C10: for a frame with rows, the headings are "Question 1" to "Question k" in
\* the order of the question rows, k being the number of sections with a header or
\* a data row, the count the summary reports.
C10_ConsecutiveNumbering ==
    (Done /\ Len(df) > 0) =>
       LET with == SectionsWithContent
           k == Len(with)
           last == Len(markdown_content)
       IN /\ Cardinality(HeadingPositions) = k
          /\ \A n \in 1..k :
                \E p \in HeadingPositions :
                   /\ Cardinality({q \in HeadingPositions : q <= p}) = n
                   /\ markdown_content[p] = "### Question " \o ToString(n) \o "\n\n"
                   /\ markdown_content[p + 1] = "**" \o with[n].question_text \o "**\n\n"
          /\ \A n \in 1..(k - 1) : with[n].start < with[n + 1].start
          /\ markdown_content[last - 1] =
                "**Total Questions Processed:** " \o ToString(k) \o "  \n"
          /\ question_number = k
          /\ k <= Cardinality(QuestionRowIndices)

\* a section with neither header nor data, then one that is numbered 1
C10_Witness ==
    /\ Done
    /\ Len(sections) >= 2
    /\ ~ sections[1].emitted
    /\ sections[2].emitted /\ sections[2].number = 1
    /\ InDocument("### Question 1")
    /\ ~ InDocument("### Question 2")

====
